---- MODULE Spec2Model ----
(***************************************************************************)
(* A model of the cache table of cache2go (src/unnamed/part_000): the      *)
(* item map, the self-adjusting cleanup timer, the callback lists, the     *)
(* data loader and the two lock granularities (table RWMutex, item         *)
(* RWMutex).  Every step is one critical section of the Go code, that is   *)
(* the code between a Lock/RLock and the matching Unlock/RUnlock, or one   *)
(* run of callbacks outside the locks.                                     *)
(***************************************************************************)
EXTENDS Integers, Sequences, FiniteSets, TLC

\* ------------------------------------------------------------------ bounds
NumCallers == 2
NumSweepers == 2
MaxCalls == 2
MaxTime == 2
MaxLife == 2

Callers == 1..NumCallers
Sweepers == (NumCallers + 1)..(NumCallers + NumSweepers)
Procs == Callers \cup Sweepers
Keys == {"a", "b"}
LifeSpans == 0..MaxLife
\* One item at the start and at most one more per call.
ItemIds == 1..(MaxCalls + 1)
\* A timer is armed for a remaining life span, which KeepAlive can push past
\* the item's life span by the time the sweep has been running.
MaxDeadline == 2 * MaxTime + MaxLife

\* ------------------------------------------------------------------- state
VARIABLES
  items,             \* table.items: key -> item id, 0 when the key is absent
  heap,              \* the CacheItem objects created so far, by id
  cleanupTimer,      \* deadline of the armed timer table.cleanupTimer holds, -1 when nil, stopped or fired
  strayTimers,       \* armed timers no longer held by table.cleanupTimer: deadline -> how many
  cleanupInterval,   \* table.cleanupInterval
  loadData,          \* table.loadData is set
  addedItem,         \* table.addedItem
  aboutToDeleteItem, \* table.aboutToDeleteItem
  tableLock,         \* the process holding table's write lock across steps, 0 when none
  itemR,             \* per item: the processes holding its read lock
  itemP,             \* per item: the processes blocked in item.Lock()
  now,               \* the clock
  pc,                \* per process: where it stands
  loc,               \* per process: the locals of the call it runs
  ret,               \* the call that returned in the step just taken (NoRet otherwise)
  nfaWon,            \* per key: NotFoundAdd calls that inserted it since the key was last removed
  hits,              \* per item: Value calls that returned it
  calls              \* calls of Add, NotFoundAdd, Value, Delete, Exists and Flush made so far

vars == <<items, heap, cleanupTimer, strayTimers, cleanupInterval, loadData, addedItem,
          aboutToDeleteItem, tableLock, itemR, itemP, now, pc, loc, ret, nfaWon, hits, calls>>

sched == <<cleanupTimer, strayTimers, cleanupInterval>>
hooks == <<loadData, addedItem, aboutToDeleteItem>>
locks == <<tableLock, itemR, itemP>>

NoKeys == {}
EmptyMap == [k \in Keys |-> 0]

\* The locals of a call: those of Add/NotFoundAdd/Value (op, key, item, cbs,
\* expDur, life, ldata, log), of expirationCheck (inExp, nowS, small and the state of
\* its range: must, may, det, old) and of deleteInternal (dkey, r, dlog).
IdleLoc == [op |-> "none", key |-> "a", item |-> 0, cbs |-> <<>>, expDur |-> 0,
            inExp |-> FALSE, nowS |-> 0, small |-> 0, must |-> NoKeys, may |-> NoKeys,
            det |-> FALSE, old |-> EmptyMap, life |-> 0, ldata |-> 0, log |-> <<>>,
            dkey |-> "a", r |-> 0, dlog |-> <<>>, f |-> 0,
            n |-> 0, left |-> NoKeys, pairs |-> <<>>]

\* What a call hands back: err and ok are its results, item and data the item
\* returned (life and data: the life span and payload handed to addInternal),
\* via the path taken, expDur and checked what addInternal read and
\* whether it ran expirationCheck, log the callbacks it invoked and the map
\* writes it made, in order.
NoRet == [p |-> 0, op |-> "none", err |-> "nil", ok |-> FALSE, key |-> "a", item |-> 0,
          life |-> 0, data |-> 0, via |-> "none", expDur |-> 0, checked |-> FALSE,
          log |-> <<>>, cb |-> 0, n |-> 0, res |-> <<>>]

\* ----------------------------------------------------------------- helpers
\* NewCacheItem(key, lifeSpan, data) at time t: accessedOn = t, accessCount = 0, no callbacks
\* (createdOn, which nothing reads but the log line of deleteInternal, is left out).
NewCacheItem(k, l, d, t) ==
  [key |-> k, lifeSpan |-> l, data |-> d, accessedOn |-> t,
   accessCount |-> 0, aboutToExpire |-> <<>>]

\* item.KeepAlive(), inside the item's write lock.
KeepAliveItem(it) == [it EXCEPT !.accessedOn = now, !.accessCount = @ + 1]

\* One callback invocation by process p: which callback, its argument, and the
\* locks p holds while the callback runs (tl: the table lock, il: the lock of
\* the subject item it).
Ev(kind, cb, arg, p, it, rlocks) ==
  [kind |-> kind, cb |-> cb, arg |-> arg, tl |-> (tableLock = p), il |-> (p \in rlocks[it])]

\* `for _, callback := range list { callback(arg) }`
RunCallbacks(kind, list, arg, p, it, rlocks) ==
  [i \in 1..Len(list) |-> Ev(kind, list[i], arg, p, it, rlocks)]

\* A map write, put in the log of the call that makes it.
Mark(kind, it) == <<[kind |-> kind, cb |-> 0, arg |-> it, tl |-> TRUE, il |-> FALSE]>>

\* The processes inside the `for key, item := range table.items` of expirationCheck.
Iterating(q) == loc[q].inExp /\ pc[q] \in {"exp_loop", "del_cb", "del_rlock", "del_lock"}

\* Go's range over a map that is written during the iteration: an entry created
\* during the iteration may be produced or skipped (may), an entry removed before
\* it is reached is not produced, and `table.items = make(...)` leaves the
\* iteration on the old map object (det, old).
LocsAfterInsert(k) ==
  [q \in Procs |-> IF Iterating(q) /\ ~loc[q].det /\ items[k] = 0
                   THEN [loc[q] EXCEPT !.may = @ \cup {k}] ELSE loc[q]]

LocsAfterDelete(k) ==
  [q \in Procs |-> IF Iterating(q) /\ ~loc[q].det
                   THEN [loc[q] EXCEPT !.must = @ \ {k}, !.may = @ \ {k}] ELSE loc[q]]

LocsAfterFlush ==
  [q \in Procs |-> IF Iterating(q) /\ ~loc[q].det
                   THEN [loc[q] EXCEPT !.det = TRUE, !.old = items] ELSE loc[q]]

StrayCount == LET n[d \in -1..MaxDeadline] == IF d = -1 THEN 0 ELSE n[d - 1] + strayTimers[d]
              IN n[MaxDeadline]

\* time.AfterFunc(d, ...) assigned to table.cleanupTimer: the timer the field held,
\* if still armed, stays armed with nothing holding it.
ArmedStray(held) ==
  IF held = -1 THEN strayTimers ELSE [strayTimers EXCEPT ![held] = @ + 1]

\* What a call that went through addInternal returns to its caller: Add the new
\* item, NotFoundAdd true, Value the loader's item (item 0: not a stored one).
AddReturn(p, l) ==
  LET out == [NoRet EXCEPT !.p = p, !.op = l.op, !.key = l.key, !.ok = TRUE, !.data = l.ldata,
                           !.life = l.life,
                           !.expDur = l.expDur, !.checked = l.inExp, !.log = l.log]
  IN CASE l.op \in {"Add", "NotFoundAdd"} -> [out EXCEPT !.item = l.item, !.via = "add"]
       [] l.op = "Value" -> [out EXCEPT !.via = "load"]
       [] OTHER -> [NoRet EXCEPT !.p = p, !.op = "sweep"]

Rest(p) == IF p \in Callers THEN "idle" ELSE "off"

\* The callers run the same code and keep nothing between calls: of the idle
\* callers, the lowest one makes the next call.
Free(p) == pc[p] = "idle" /\ \A q \in Callers : q < p => pc[q] # "idle"

\* A caller starts one of the table's calls.
Call(p) == Free(p) /\ calls < MaxCalls /\ calls' = calls + 1

\* The payload of the next item created: the engine never looks into a payload,
\* so each call brings one of its own (the item's number).
NextData == Len(heap) + 1

\* `_, ok := table.items[key]`
ExistsOf(k) == items[k] # 0

\* Where Value goes after its lookup: to KeepAlive, to the loader, or out.
Lookup(k) == IF items[k] # 0 THEN "hit" ELSE IF loadData THEN "load" ELSE "KeyNotFound"

\* -------------------------------------------------------------------- Init
\* The table of examples/callbacks.go once it is set up: two added callbacks
\* (1, 2) and two about-to-delete callbacks (3, 4) are registered, and the table
\* is empty or holds the item of one finished Add("a", l, 1) made at time 0, on
\* which two about-to-expire callbacks (5, 6) were registered.  A finished Add of
\* a positive life span has run expirationCheck: cleanupInterval is l and the
\* timer is armed for l.
FirstItem(l) == [NewCacheItem("a", l, 1, 0) EXCEPT !.aboutToExpire = <<5, 6>>]

InitTable(l) ==
  /\ items = [EmptyMap EXCEPT !["a"] = 1]
  /\ heap = <<FirstItem(l)>>
  /\ cleanupTimer = l
  /\ cleanupInterval = l

InitEmpty ==
  /\ items = EmptyMap
  /\ heap = <<>>
  /\ cleanupTimer = -1
  /\ cleanupInterval = 0

\* No timer outside the table's handle, no lock held, nobody inside a call.
InitIdle ==
  /\ strayTimers = [d \in 0..MaxDeadline |-> 0]
  /\ tableLock = 0
  /\ itemR = [i \in ItemIds |-> {}]
  /\ itemP = [i \in ItemIds |-> {}]
  /\ now = 0
  /\ pc = [p \in Procs |-> Rest(p)]
  /\ loc = [p \in Procs |-> IdleLoc]
  /\ ret = NoRet
  /\ nfaWon = [k \in Keys |-> 0]
  /\ hits = [i \in ItemIds |-> 0]
  /\ calls = 0

InitRest ==
  /\ addedItem = <<1, 2>>
  /\ aboutToDeleteItem = <<3, 4>>
  /\ InitIdle

\* No data loader is set.
Init ==
  /\ InitEmpty \/ InitTable(MaxLife)
  /\ loadData = FALSE
  /\ InitRest

\* A data loader may be set.
InitLoad ==
  /\ InitEmpty \/ InitTable(1)
  /\ loadData \in BOOLEAN
  /\ InitRest

\* ------------------------------------------------------ addInternal and Add
\* table.Lock(); addInternal up to its table.Unlock(): the item is put into the
\* map, cleanupInterval and addedItem are read.
Insert(p, op, k, l) ==
  /\ tableLock = 0
  /\ heap' = Append(heap, NewCacheItem(k, l, NextData, now))
  /\ items' = [items EXCEPT ![k] = Len(heap) + 1]
  /\ loc' = [LocsAfterInsert(k) EXCEPT ![p] =
               [IdleLoc EXCEPT !.op = op, !.key = k, !.item = Len(heap) + 1,
                               !.expDur = cleanupInterval, !.cbs = addedItem,
                               !.life = l,
                               !.ldata = NextData, !.log = Mark("insert", Len(heap) + 1)]]
  /\ pc' = [pc EXCEPT ![p] = "add_cb"]
  /\ ret' = NoRet
  /\ UNCHANGED <<sched, hooks, locks, now, hits>>

Add(p, k, l) ==
  /\ Call(p)
  /\ Insert(p, "Add", k, l)
  /\ UNCHANGED nfaWon

\* addInternal after its table.Unlock(), with no callback run.
AddCallbacksSkipped(p) ==
  /\ pc[p] = "add_cb"
  /\ pc' = [pc EXCEPT ![p] = "idle"]
  /\ loc' = [loc EXCEPT ![p] = IdleLoc]
  /\ ret' = AddReturn(p, loc[p])
  /\ UNCHANGED <<items, heap, sched, hooks, locks, now, nfaWon, hits, calls>>

\* addInternal after its table.Unlock(): the added callbacks, then the decision
\* to run expirationCheck.
AddCallbacks(p) ==
  /\ pc[p] = "add_cb"
  /\ LET l == loc[p]
         log == l.log \o RunCallbacks("added", l.cbs, l.item, p, l.item, itemR)
         l2 == [l EXCEPT !.log = log, !.cbs = <<>>]
     IN IF heap[l.item].lifeSpan > 0 /\ (l.expDur = 0 \/ heap[l.item].lifeSpan < l.expDur)
        THEN /\ pc' = [pc EXCEPT ![p] = "exp_start"]
             /\ loc' = [loc EXCEPT ![p] = [l2 EXCEPT !.inExp = TRUE]]
             /\ ret' = NoRet
        ELSE /\ pc' = [pc EXCEPT ![p] = "idle"]
             /\ loc' = [loc EXCEPT ![p] = IdleLoc]
             /\ ret' = AddReturn(p, l2)
  /\ UNCHANGED <<items, heap, sched, hooks, locks, now, nfaWon, hits, calls>>

\* NotFoundAdd without its check of the map.
NotFoundAddUnchecked(p, k, l) ==
  /\ Call(p)
  /\ Insert(p, "NotFoundAdd", k, l)
  /\ nfaWon' = [nfaWon EXCEPT ![k] = @ + 1]

NotFoundAdd(p, k, l) ==
  /\ Call(p)
  /\ tableLock = 0
  /\ IF ExistsOf(k)
     THEN /\ ret' = [NoRet EXCEPT !.p = p, !.op = "NotFoundAdd", !.key = k, !.ok = FALSE]
          /\ UNCHANGED <<items, heap, sched, hooks, locks, now, pc, loc, nfaWon, hits>>
     ELSE /\ Insert(p, "NotFoundAdd", k, l)
          /\ nfaWon' = [nfaWon EXCEPT ![k] = @ + 1]

\* --------------------------------------------------------- expirationCheck
\* table.Lock(); cleanupTimer.Stop(); now := time.Now(); the range begins.
ExpStart(p) ==
  /\ pc[p] = "exp_start"
  /\ tableLock = 0
  /\ tableLock' = p
  /\ cleanupTimer' = -1
  /\ loc' = [loc EXCEPT ![p] = [@ EXCEPT !.nowS = now, !.small = 0,
                                         !.must = {k \in Keys : items[k] # 0},
                                         !.may = NoKeys, !.det = FALSE, !.old = EmptyMap]]
  /\ pc' = [pc EXCEPT ![p] = "exp_loop"]
  /\ ret' = NoRet
  /\ UNCHANGED <<items, heap, hooks, strayTimers, cleanupInterval, itemR, itemP, now, nfaWon, hits, calls>>

\* The smallest remaining duration after one more surviving item.
\* The duration kept if the comparison were the other way round.
Largest(small, lifeSpan, elapsed) ==
  IF small = 0 \/ lifeSpan - elapsed > small THEN lifeSpan - elapsed ELSE small

Smallest(small, lifeSpan, elapsed) ==
  IF small = 0 \/ lifeSpan - elapsed < small THEN lifeSpan - elapsed ELSE small

\* The item is past its life span: `now.Sub(accessedOn) >= lifeSpan`.
Expired(nowS, accessedOn, lifeSpan) == nowS - accessedOn >= lifeSpan

\* One iteration of the range: the item's lifeSpan and accessedOn are read under
\* its read lock; an expired item goes to deleteInternal, whose first lines (the
\* lookup, the read of aboutToDeleteItem, table.Unlock()) belong to this step.
ExpVisit(p) ==
  /\ pc[p] = "exp_loop"
  /\ \E k \in loc[p].must \cup loc[p].may :
       LET l == loc[p]
           it == IF l.det THEN l.old[k] ELSE items[k]
           l1 == [l EXCEPT !.must = @ \ {k}, !.may = @ \ {k}]
           lifeSpan == heap[it].lifeSpan
           accessedOn == heap[it].accessedOn
       IN /\ itemP[it] = {}
          /\ IF lifeSpan # 0 /\ Expired(l.nowS, accessedOn, lifeSpan) /\ items[k] # 0
             THEN /\ loc' = [loc EXCEPT ![p] = [l1 EXCEPT !.dkey = k, !.r = items[k],
                                                          !.cbs = aboutToDeleteItem]]
                  /\ pc' = [pc EXCEPT ![p] = "del_cb"]
                  /\ tableLock' = 0
             ELSE /\ loc' = [loc EXCEPT ![p] =
                       IF lifeSpan = 0 \/ Expired(l.nowS, accessedOn, lifeSpan) THEN l1
                       ELSE [l1 EXCEPT !.small = Smallest(l.small, lifeSpan, l.nowS - accessedOn)]]
                  /\ UNCHANGED <<pc, tableLock>>
  /\ ret' = NoRet
  /\ UNCHANGED <<items, heap, sched, hooks, itemR, itemP, now, nfaWon, hits, calls>>

\* The range is over: cleanupInterval is set, the timer is armed for it when it
\* is positive, table.Unlock(), and the caller (Add, NotFoundAdd, Value or the
\* timer's goroutine) gets control back.
ExpEnd(p) ==
  /\ pc[p] = "exp_loop"
  /\ loc[p].must = {}
  /\ cleanupInterval' = loc[p].small
  /\ IF loc[p].small > 0
     THEN /\ cleanupTimer' = now + loc[p].small
          /\ strayTimers' = ArmedStray(cleanupTimer)
     ELSE UNCHANGED <<cleanupTimer, strayTimers>>
  /\ tableLock' = 0
  /\ pc' = [pc EXCEPT ![p] = Rest(p)]
  /\ loc' = [loc EXCEPT ![p] = IdleLoc]
  /\ ret' = AddReturn(p, loc[p])
  /\ UNCHANGED <<items, heap, hooks, itemR, itemP, now, nfaWon, hits, calls>>

\* The timer held by table.cleanupTimer fires: `go table.expirationCheck()`.
FreeSweeper(s) == s \in Sweepers /\ pc[s] = "off" /\ \A q \in Sweepers : q < s => pc[q] # "off"

Spawn(s) ==
  /\ pc' = [pc EXCEPT ![s] = "exp_start"]
  /\ loc' = [loc EXCEPT ![s] = [IdleLoc EXCEPT !.op = "sweep", !.inExp = TRUE]]
  /\ ret' = NoRet

TimerFire ==
  /\ cleanupTimer # -1
  /\ now >= cleanupTimer
  /\ \E s \in Sweepers : FreeSweeper(s) /\ Spawn(s)
  /\ cleanupTimer' = -1
  /\ UNCHANGED <<items, heap, hooks, locks, strayTimers, cleanupInterval, now, nfaWon, hits, calls>>

\* An armed timer that table.cleanupTimer no longer holds fires.
StrayFire ==
  /\ \E d \in 0..MaxDeadline :
       /\ strayTimers[d] > 0
       /\ now >= d
       /\ strayTimers' = [strayTimers EXCEPT ![d] = @ - 1]
  /\ \E s \in Sweepers : FreeSweeper(s) /\ Spawn(s)
  /\ UNCHANGED <<items, heap, hooks, locks, cleanupTimer, cleanupInterval, now, nfaWon, hits, calls>>

\* ------------------------------------------------- deleteInternal and Delete
\* Delete that reports no error for a key it does not find.
DeleteAbsentSilent(p, k) ==
  /\ Call(p)
  /\ tableLock = 0
  /\ IF ~ExistsOf(k)
     THEN /\ ret' = [NoRet EXCEPT !.p = p, !.op = "Delete", !.key = k, !.ok = TRUE]
          /\ UNCHANGED <<pc, loc>>
     ELSE /\ loc' = [loc EXCEPT ![p] = [IdleLoc EXCEPT !.op = "Delete", !.dkey = k,
                                                       !.r = items[k],
                                                       !.cbs = aboutToDeleteItem]]
          /\ pc' = [pc EXCEPT ![p] = "del_cb"]
          /\ ret' = NoRet
  /\ UNCHANGED <<items, heap, sched, hooks, locks, now, nfaWon, hits>>

\* table.Lock(); deleteInternal up to its table.Unlock().
Delete(p, k) ==
  /\ Call(p)
  /\ tableLock = 0
  /\ IF ~ExistsOf(k)
     THEN /\ ret' = [NoRet EXCEPT !.p = p, !.op = "Delete", !.key = k, !.err = "KeyNotFound"]
          /\ UNCHANGED <<pc, loc>>
     ELSE /\ loc' = [loc EXCEPT ![p] = [IdleLoc EXCEPT !.op = "Delete", !.dkey = k,
                                                       !.r = items[k],
                                                       !.cbs = aboutToDeleteItem]]
          /\ pc' = [pc EXCEPT ![p] = "del_cb"]
          /\ ret' = NoRet
  /\ UNCHANGED <<items, heap, sched, hooks, locks, now, nfaWon, hits>>

\* The about-to-delete callbacks, on the list read before table.Unlock().
DelCallbacks(p) ==
  /\ pc[p] = "del_cb"
  /\ loc' = [loc EXCEPT ![p] = [@ EXCEPT !.dlog =
               @ \o RunCallbacks("delete", loc[p].cbs, loc[p].r, p, loc[p].r, itemR)]]
  /\ pc' = [pc EXCEPT ![p] = "del_rlock"]
  /\ ret' = NoRet
  /\ UNCHANGED <<items, heap, sched, hooks, locks, now, nfaWon, hits, calls>>

\* r.RLock(); defer r.RUnlock(); the item's about-to-expire callbacks.
DelExpire(p) ==
  /\ pc[p] = "del_rlock"
  /\ LET r == loc[p].r
     IN /\ itemP[r] = {}
        /\ itemR' = [itemR EXCEPT ![r] = @ \cup {p}]
        /\ loc' = [loc EXCEPT ![p] = [@ EXCEPT !.dlog =
                     @ \o RunCallbacks("expire", heap[r].aboutToExpire, loc[p].dkey, p, r, itemR')]]
  /\ pc' = [pc EXCEPT ![p] = "del_lock"]
  /\ ret' = NoRet
  /\ UNCHANGED <<items, heap, sched, hooks, tableLock, itemP, now, nfaWon, hits, calls>>

\* table.Lock(); delete(table.items, key); return r, nil; the deferred
\* r.RUnlock(); then Delete's deferred table.Unlock(), or the range goes on with
\* the table locked.
DelRemove(p) ==
  /\ pc[p] = "del_lock"
  /\ tableLock = 0
  /\ LET l == loc[p]
         out == [NoRet EXCEPT !.p = p, !.op = IF l.inExp THEN "expire" ELSE "Delete",
                              !.key = l.dkey, !.item = l.r, !.ok = TRUE,
                              !.data = heap[l.r].data,
                              !.log = l.dlog \o Mark("remove", items[l.dkey])]
     IN /\ items' = [items EXCEPT ![l.dkey] = 0]
        /\ itemR' = [itemR EXCEPT ![l.r] = @ \ {p}]
        /\ nfaWon' = [nfaWon EXCEPT ![l.dkey] = 0]
        /\ ret' = out
        /\ IF l.inExp
           THEN /\ tableLock' = p
                /\ pc' = [pc EXCEPT ![p] = "exp_loop"]
                /\ loc' = [LocsAfterDelete(l.dkey) EXCEPT ![p] =
                             [LocsAfterDelete(l.dkey)[p] EXCEPT !.dlog = <<>>, !.cbs = <<>>,
                                                                !.dkey = "a", !.r = 0]]
           ELSE /\ tableLock' = 0
                /\ pc' = [pc EXCEPT ![p] = "idle"]
                /\ loc' = [LocsAfterDelete(l.dkey) EXCEPT ![p] = IdleLoc]
  /\ UNCHANGED <<heap, sched, hooks, itemP, now, hits, calls>>

\* ------------------------------------------------------------------- Value
\* Value's table.RLock() ... table.RUnlock(): the lookup and the read of loadData.
Value(p, k) ==
  /\ Call(p)
  /\ tableLock = 0
  /\ LET r == items[k]
     IN IF Lookup(k) = "hit"
        THEN /\ pc' = [pc EXCEPT ![p] = "val_keepalive"]
             /\ loc' = [loc EXCEPT ![p] = [IdleLoc EXCEPT !.op = "Value", !.key = k, !.item = r]]
             /\ ret' = NoRet
        ELSE IF Lookup(k) = "load"
        THEN /\ pc' = [pc EXCEPT ![p] = "val_load"]
             /\ loc' = [loc EXCEPT ![p] = [IdleLoc EXCEPT !.op = "Value", !.key = k]]
             /\ ret' = NoRet
        ELSE /\ ret' = [NoRet EXCEPT !.p = p, !.op = "Value", !.key = k, !.err = "KeyNotFound"]
             /\ UNCHANGED <<pc, loc>>
  /\ UNCHANGED <<items, heap, sched, hooks, locks, now, nfaWon, hits>>

\* Value's return without r.KeepAlive().
TouchNoKeepAlive(p) ==
  LET r == loc[p].item
  IN /\ heap' = heap
     /\ pc' = [pc EXCEPT ![p] = "idle"]
     /\ loc' = [loc EXCEPT ![p] = IdleLoc]
     /\ ret' = [NoRet EXCEPT !.p = p, !.op = "Value", !.key = loc[p].key, !.item = r,
                             !.ok = TRUE, !.data = heap[r].data, !.via = "hit"]
     /\ hits' = [hits EXCEPT ![r] = @ + 1]

\* `r.KeepAlive(); return r, nil` once r's write lock is had.
Touch(p) ==
  LET r == loc[p].item
  IN /\ heap' = [heap EXCEPT ![r] = KeepAliveItem(@)]
     /\ pc' = [pc EXCEPT ![p] = "idle"]
     /\ loc' = [loc EXCEPT ![p] = IdleLoc]
     /\ ret' = [NoRet EXCEPT !.p = p, !.op = "Value", !.key = loc[p].key, !.item = r,
                             !.ok = TRUE, !.data = heap[r].data, !.via = "hit"]
     /\ hits' = [hits EXCEPT ![r] = @ + 1]

\* r.KeepAlive() calls item.Lock(): it goes through when nobody holds the item's
\* read lock, and waits otherwise (a waiting writer keeps new readers out).
KeepAlive(p) ==
  /\ pc[p] = "val_keepalive"
  /\ IF itemR[loc[p].item] = {}
     THEN Touch(p) /\ UNCHANGED itemP
     ELSE /\ itemP' = [itemP EXCEPT ![loc[p].item] = @ \cup {p}]
          /\ pc' = [pc EXCEPT ![p] = "val_kwait"]
          /\ ret' = NoRet
          /\ UNCHANGED <<heap, loc, hits>>
  /\ UNCHANGED <<items, sched, hooks, tableLock, itemR, now, nfaWon, calls>>

KeepAliveWake(p) ==
  /\ pc[p] = "val_kwait"
  /\ itemR[loc[p].item] = {}
  /\ Touch(p)
  /\ itemP' = [itemP EXCEPT ![loc[p].item] = @ \ {p}]
  /\ UNCHANGED <<items, sched, hooks, tableLock, itemR, now, nfaWon, calls>>

\* `item := loadData(key, args...)`: nothing, or an item whose lifeSpan and data
\* go to table.Add.
ValueLoad(p) ==
  /\ pc[p] = "val_load"
  /\ \/ /\ ret' = [NoRet EXCEPT !.p = p, !.op = "Value", !.key = loc[p].key,
                                !.err = "KeyNotFoundOrNotLoadable"]
        /\ pc' = [pc EXCEPT ![p] = "idle"]
        /\ loc' = [loc EXCEPT ![p] = IdleLoc]
        /\ UNCHANGED <<items, heap, sched, hooks, locks, now, hits>>
     \/ \E l \in LifeSpans : Insert(p, "Value", loc[p].key, l)
  /\ UNCHANGED <<nfaWon, calls>>

\* ------------------------------------------- Exists, Count, Flush, settings
\* Exists as it would be if it took the item as Value does: an access counted.
ExistsCounted(p, k) ==
  /\ Call(p)
  /\ tableLock = 0
  /\ ret' = [NoRet EXCEPT !.p = p, !.op = "Exists", !.key = k, !.ok = ExistsOf(k)]
  /\ heap' = IF ExistsOf(k) THEN [heap EXCEPT ![items[k]] = KeepAliveItem(@)] ELSE heap
  /\ UNCHANGED <<items, sched, hooks, locks, now, pc, loc, nfaWon, hits>>

Exists(p, k) ==
  /\ Call(p)
  /\ tableLock = 0
  /\ ret' = [NoRet EXCEPT !.p = p, !.op = "Exists", !.key = k, !.ok = ExistsOf(k)]
  /\ UNCHANGED <<items, heap, sched, hooks, locks, now, pc, loc, nfaWon, hits>>

Count == Cardinality({k \in Keys : items[k] # 0})

Flush(p) ==
  /\ Call(p)
  /\ tableLock = 0
  /\ items' = EmptyMap
  /\ cleanupInterval' = 0
  /\ cleanupTimer' = -1
  /\ loc' = LocsAfterFlush
  /\ nfaWon' = [k \in Keys |-> 0]
  /\ ret' = [NoRet EXCEPT !.p = p, !.op = "Flush", !.ok = TRUE]
  /\ UNCHANGED <<heap, hooks, locks, strayTimers, now, pc, hits>>

\* A setting is one more call of a caller.
Setting(p) == Call(p)

\* The callbacks a caller may register besides those of the set-up table.
NewCallbacks == {7, 8}

\* The steps of the settings leave the items, the schedule and the locks alone.
SettingFrame == UNCHANGED <<items, heap, sched, locks, loadData, now, nfaWon, hits>>

\* The return of a setting.
Done(p, op, f) == [NoRet EXCEPT !.p = p, !.op = op, !.ok = TRUE, !.cb = f]

SetDataLoader(p, f) ==
  /\ Setting(p)
  /\ tableLock = 0
  /\ loadData' = f
  /\ ret' = NoRet
  /\ UNCHANGED <<items, heap, sched, locks, addedItem, aboutToDeleteItem, now, pc, loc,
                 nfaWon, hits>>

\* `if len(list) > 0` of a Set*Callback: the length is read with no lock held.
SetRead(p, op, list, f) ==
  /\ Setting(p)
  /\ pc' = [pc EXCEPT ![p] = IF Len(list) > 0 THEN "set_remove" ELSE "set_append"]
  /\ loc' = [loc EXCEPT ![p] = [IdleLoc EXCEPT !.op = op, !.f = f]]
  /\ ret' = NoRet
  /\ UNCHANGED <<addedItem, aboutToDeleteItem>>
  /\ SettingFrame

SetAddedItemCallback(p, f) == SetRead(p, "SetAddedItemCallback", addedItem, f)

SetAboutToDeleteItemCallback(p, f) ==
  SetRead(p, "SetAboutToDeleteItemCallback", aboutToDeleteItem, f)

\* The Remove*Callbacks call inside a Set*Callback: Lock, list = nil, Unlock.
SetRemove(p) ==
  /\ pc[p] = "set_remove"
  /\ tableLock = 0
  /\ IF loc[p].op = "SetAddedItemCallback"
     THEN addedItem' = <<>> /\ UNCHANGED aboutToDeleteItem
     ELSE aboutToDeleteItem' = <<>> /\ UNCHANGED addedItem
  /\ pc' = [pc EXCEPT ![p] = "set_append"]
  /\ ret' = NoRet
  /\ UNCHANGED <<loc, calls>>
  /\ SettingFrame

\* The end of a Set*Callback: Lock, list = append(list, f), Unlock.
SetAppend(p) ==
  /\ pc[p] = "set_append"
  /\ tableLock = 0
  /\ IF loc[p].op = "SetAddedItemCallback"
     THEN addedItem' = Append(addedItem, loc[p].f) /\ UNCHANGED aboutToDeleteItem
     ELSE aboutToDeleteItem' = Append(aboutToDeleteItem, loc[p].f) /\ UNCHANGED addedItem
  /\ pc' = [pc EXCEPT ![p] = "idle"]
  /\ loc' = [loc EXCEPT ![p] = IdleLoc]
  /\ ret' = Done(p, loc[p].op, loc[p].f)
  /\ UNCHANGED calls
  /\ SettingFrame

AddAddedItemCallback(p, f) ==
  /\ Setting(p)
  /\ tableLock = 0
  /\ addedItem' = Append(addedItem, f)
  /\ ret' = Done(p, "AddAddedItemCallback", f)
  /\ UNCHANGED <<aboutToDeleteItem, pc, loc>>
  /\ SettingFrame

AddAboutToDeleteItemCallback(p, f) ==
  /\ Setting(p)
  /\ tableLock = 0
  /\ aboutToDeleteItem' = Append(aboutToDeleteItem, f)
  /\ ret' = Done(p, "AddAboutToDeleteItemCallback", f)
  /\ UNCHANGED <<addedItem, pc, loc>>
  /\ SettingFrame

RemoveAddedItemCallbacks(p) ==
  /\ Setting(p)
  /\ tableLock = 0
  /\ addedItem' = <<>>
  /\ ret' = Done(p, "RemoveAddedItemCallbacks", 0)
  /\ UNCHANGED <<aboutToDeleteItem, pc, loc>>
  /\ SettingFrame

RemoveAboutToDeleteItemCallback(p) ==
  /\ Setting(p)
  /\ tableLock = 0
  /\ aboutToDeleteItem' = <<>>
  /\ ret' = Done(p, "RemoveAboutToDeleteItemCallback", 0)
  /\ UNCHANGED <<addedItem, pc, loc>>
  /\ SettingFrame

\* item.AddAboutToExpireCallback(f), inside the item's write lock.
AddAboutToExpireCallback(p, i, f) ==
  /\ Setting(p)
  /\ i \in 1..Len(heap)
  /\ itemR[i] = {}
  /\ heap' = [heap EXCEPT ![i].aboutToExpire = Append(@, f)]
  /\ ret' = NoRet
  /\ UNCHANGED <<items, sched, hooks, locks, now, pc, loc, nfaWon, hits>>

\* Time passes.
Tick ==
  /\ now < MaxTime
  /\ now' = now + 1
  /\ ret' = NoRet
  /\ UNCHANGED <<items, heap, sched, hooks, locks, pc, loc, nfaWon, hits, calls>>

\* ----------------------------------------------------------- specification
\* The steps inside a call, and the timers.
Inner ==
  \/ \E p \in Procs : AddCallbacks(p)
  \/ \E p \in Procs : ExpStart(p)
  \/ \E p \in Procs : ExpVisit(p)
  \/ \E p \in Procs : ExpEnd(p)
  \/ \E p \in Procs : DelCallbacks(p)
  \/ \E p \in Procs : DelExpire(p)
  \/ \E p \in Procs : DelRemove(p)
  \/ \E p \in Callers : KeepAlive(p)
  \/ \E p \in Callers : KeepAliveWake(p)
  \/ TimerFire
  \/ StrayFire
  \/ Tick

Next ==
  \/ \E p \in Callers, k \in Keys, l \in LifeSpans : Add(p, k, l)
  \/ \E p \in Callers, k \in Keys, l \in LifeSpans : NotFoundAdd(p, k, l)
  \/ \E p \in Callers, k \in Keys : Delete(p, k)
  \/ \E p \in Callers, k \in Keys : Value(p, k)
  \/ \E p \in Callers, k \in Keys : Exists(p, k)
  \/ \E p \in Callers : Flush(p)
  \/ Inner

Spec == Init /\ [][Next]_vars

\* The table with a data loader: Value on an absent key goes through it.
NextLoad ==
  \/ \E p \in Callers, k \in Keys, l \in LifeSpans : Add(p, k, l)
  \/ \E p \in Callers, k \in Keys : Delete(p, k)
  \/ \E p \in Callers, k \in Keys : Value(p, k)
  \/ \E p \in Callers : ValueLoad(p)
  \/ \E p \in Callers, k \in Keys : Exists(p, k)
  \/ \E p \in Callers : Flush(p)
  \/ Inner

SpecLoad == InitLoad /\ [][NextLoad]_vars

\* ------------------------------------------------------------ MostAccessed
\* The counts asked for: negative, zero, fewer than, as many as and more than
\* the items of the table.
Wanted == -1..3

\* table.RLock() (held to the return; as the one reader it keeps the writers
\* out), `p := make(CacheItemPairList, len(table.items))`.
MostAccessed(p, n) ==
  /\ Call(p)
  /\ tableLock = 0
  /\ tableLock' = p
  /\ pc' = [pc EXCEPT ![p] = "most_read"]
  /\ loc' = [loc EXCEPT ![p] = [IdleLoc EXCEPT !.op = "MostAccessed", !.n = n,
                                               !.left = {k \in Keys : items[k] # 0}]]
  /\ ret' = NoRet
  /\ UNCHANGED <<items, heap, sched, hooks, itemR, itemP, now, nfaWon, hits>>

\* One iteration of `for k, v := range table.items { p[i] = CacheItemPair{k,
\* v.accessCount} }`: the count is read with the item's lock not taken.
MostRead(p) ==
  /\ pc[p] = "most_read"
  /\ \E k \in loc[p].left :
       loc' = [loc EXCEPT ![p] = [@ EXCEPT !.left = @ \ {k},
                 !.pairs = Append(@, [Key |-> k, AccessCount |-> heap[items[k]].accessCount])]]
  /\ ret' = NoRet
  /\ UNCHANGED <<items, heap, sched, hooks, locks, now, pc, nfaWon, hits, calls>>

\* What sort.Sort(p) may leave: the pairs in some order in which no pair comes
\* before one of a greater AccessCount (Less is `>`; the sort is not stable).
Sorted(pairs) ==
  {q \in [1..Len(pairs) -> {pairs[i] : i \in 1..Len(pairs)}] :
     /\ \A x \in 1..Len(pairs) : \E y \in 1..Len(pairs) : q[y] = pairs[x]
     /\ \A x, y \in 1..Len(pairs) : x < y => q[x].AccessCount >= q[y].AccessCount}

\* The second loop: the first count pairs, each looked up in table.items.
Taken(q, count) ==
  LET m == IF count < 0 THEN 0 ELSE IF count > Len(q) THEN Len(q) ELSE count
      found == [i \in 1..m |-> items[q[i].Key]]
  IN SelectSeq(found, LAMBDA it : it # 0)

\* sort.Sort(p), the second loop, `return r` and the deferred table.RUnlock().
MostReturn(p) ==
  /\ pc[p] = "most_read"
  /\ loc[p].left = {}
  /\ \E q \in Sorted(loc[p].pairs) :
       ret' = [NoRet EXCEPT !.p = p, !.op = "MostAccessed", !.ok = TRUE, !.n = loc[p].n,
                            !.res = Taken(q, loc[p].n)]
  /\ tableLock' = 0
  /\ pc' = [pc EXCEPT ![p] = "idle"]
  /\ loc' = [loc EXCEPT ![p] = IdleLoc]
  /\ UNCHANGED <<items, heap, sched, hooks, itemR, itemP, now, nfaWon, hits, calls>>

\* A table of two items that never expire, each returned by Value c times so far.
InitCounts(ca, cb) ==
  /\ items = [a |-> 1, b |-> 2]
  /\ heap = <<[NewCacheItem("a", 0, 1, 0) EXCEPT !.accessCount = ca],
              [NewCacheItem("b", 0, 2, 0) EXCEPT !.accessCount = cb]>>
  /\ hits = [i \in ItemIds |-> IF i = 1 THEN ca ELSE IF i = 2 THEN cb ELSE 0]
  /\ cleanupTimer = -1
  /\ cleanupInterval = 0

InitMost ==
  /\ \E ca, cb \in 0..1 : InitCounts(ca, cb)
  /\ loadData = FALSE
  /\ addedItem = <<1, 2>>
  /\ aboutToDeleteItem = <<3, 4>>
  /\ strayTimers = [d \in 0..MaxDeadline |-> 0]
  /\ tableLock = 0
  /\ itemR = [i \in ItemIds |-> {}]
  /\ itemP = [i \in ItemIds |-> {}]
  /\ now = 0
  /\ pc = [p \in Procs |-> Rest(p)]
  /\ loc = [p \in Procs |-> IdleLoc]
  /\ ret = NoRet
  /\ nfaWon = [k \in Keys |-> 0]
  /\ calls = 0

NextMost ==
  \/ \E p \in Callers, n \in Wanted : MostAccessed(p, n)
  \/ \E p \in Callers : MostRead(p)
  \/ \E p \in Callers : MostReturn(p)
  \/ \E p \in Callers, k \in Keys : Value(p, k)
  \/ \E p \in Callers : KeepAlive(p)
  \/ \E p \in Callers : KeepAliveWake(p)
  \/ \E p \in Callers, k \in Keys : Delete(p, k)
  \/ \E p \in Procs : DelCallbacks(p)
  \/ \E p \in Procs : DelExpire(p)
  \/ \E p \in Procs : DelRemove(p)

SpecMost == InitMost /\ [][NextMost]_vars

\* No process is inside a call or a sweep.
Quiet == \A q \in Procs : pc[q] = Rest(q)

\* The table used by one goroutine at a time: a call, or the sweep the timer
\* starts, begins when nothing else is under way.
NextSeq ==
  \/ Quiet /\ \E p \in Callers, k \in Keys, l \in LifeSpans : Add(p, k, l)
  \/ Quiet /\ \E p \in Callers, k \in Keys : Value(p, k)
  \/ Quiet /\ \E p \in Callers, k \in Keys : Delete(p, k)
  \/ Quiet /\ TimerFire
  \/ \E p \in Procs : AddCallbacks(p)
  \/ \E p \in Procs : ExpStart(p)
  \/ \E p \in Procs : ExpVisit(p)
  \/ \E p \in Procs : ExpEnd(p)
  \/ \E p \in Procs : DelCallbacks(p)
  \/ \E p \in Procs : DelExpire(p)
  \/ \E p \in Procs : DelRemove(p)
  \/ \E p \in Callers : KeepAlive(p)
  \/ Tick

SpecSeq == Init /\ [][NextSeq]_vars

\* The callback lists: the table before anything is stored in it, its lists as
\* constructed (empty) or as set up, and the callers' settings.
InitReg ==
  /\ InitEmpty
  /\ loadData = FALSE
  /\ addedItem \in {<<>>, <<1, 2>>}
  /\ aboutToDeleteItem \in {<<>>, <<3, 4>>}
  /\ InitIdle

NextReg ==
  \/ \E p \in Callers, f \in NewCallbacks : SetAddedItemCallback(p, f)
  \/ \E p \in Callers, f \in NewCallbacks : AddAddedItemCallback(p, f)
  \/ \E p \in Callers : RemoveAddedItemCallbacks(p)
  \/ \E p \in Callers, f \in NewCallbacks : SetAboutToDeleteItemCallback(p, f)
  \/ \E p \in Callers, f \in NewCallbacks : AddAboutToDeleteItemCallback(p, f)
  \/ \E p \in Callers : RemoveAboutToDeleteItemCallback(p)
  \/ \E p \in Callers : SetRemove(p)
  \/ \E p \in Callers : SetAppend(p)

SpecReg == InitReg /\ [][NextReg]_vars

TypeOK ==
  /\ items \in [Keys -> 0..Len(heap)]
  /\ Len(heap) \in 0..(MaxCalls + 1)
  /\ cleanupTimer \in -1..MaxDeadline
  /\ cleanupInterval \in 0..MaxDeadline
  /\ tableLock \in Procs \cup {0}
  /\ now \in 0..MaxTime
  /\ \A i \in 1..Len(heap) : hits[i] \in 0..MaxCalls

\* -------------------------------------------------------------- properties
\* What a log says: the callbacks run and the map writes made, in order.
Said(log) == [i \in 1..Len(log) |-> <<log[i].kind, log[i].cb, log[i].arg>>]

\* Each callback of a list run once on arg, in the order of the list.
Each(kind, list, arg) == [i \in 1..Len(list) |-> <<kind, list[i], arg>>]

\* A sweep is due: a timer is armed, or a process is inside expirationCheck.
SweepDue ==
  \/ cleanupTimer # -1
  \/ StrayCount > 0
  \/ \E q \in Procs : loc[q].inExp

\* The step leaves the map, the items, the schedule and the callback lists alone.
Untouched == UNCHANGED <<items, heap, sched, hooks>>

\* C1: a Value(k) that finds k stored returns without error the item stored
\* under k, with the data given to the Add that stored it (an item's payload is
\* its number), and fails only when k is not stored; an item's accessCount is 0
\* when it is added and is at all times the number of Value calls that have
\* returned the item.
C1_AddThenValue ==
  /\ \A i \in 1..Len(heap) : heap[i].accessCount = hits[i]
  /\ ret.op = "Value" /\ ret.err = "nil" =>
       /\ ret.via = "hit"
       /\ ret.item \in 1..Len(heap)
       /\ heap[ret.item].key = ret.key
       /\ ret.data = heap[ret.item].data
       /\ ret.data = ret.item
  /\ ret.op = "Value" /\ ret.err # "nil" => ret.err = "KeyNotFound" /\ ~ExistsOf(ret.key)

\* An item stored by a call of Add has just been returned by Value.
C1_Witness ==
  /\ ret.op = "Value"
  /\ ret.item > 1
  /\ ret.data = ret.item
  /\ heap[ret.item].accessCount = 1

\* C2: NotFoundAdd is an atomic check-and-insert.  A call inserts only when it
\* finds the key absent, so at most one call inserts a key between two removals
\* of it; a call that returns false found the key stored, runs no callback and
\* leaves the map, the stored item, the schedule and the callback lists as they
\* were; a call that returns true has inserted its item and run the added
\* callbacks on it.
C2_NotFoundAddAtomic ==
  [][/\ \A k \in Keys : nfaWon'[k] <= 1
     /\ \A k \in Keys : nfaWon'[k] > nfaWon[k] =>
          /\ ~ExistsOf(k)
          /\ Len(heap') = Len(heap) + 1
          /\ items'[k] = Len(heap')
     /\ ret'.op = "NotFoundAdd" /\ ~ret'.ok =>
          /\ ExistsOf(ret'.key)
          /\ ret'.log = <<>>
          /\ Untouched
     /\ ret'.op = "NotFoundAdd" /\ ret'.ok =>
          Said(ret'.log) = <<<<"insert", 0, ret'.item>>>> \o Each("added", addedItem, ret'.item)
    ]_vars

\* A NotFoundAdd has returned false on a key that another NotFoundAdd inserted.
C2_Witness ==
  /\ ret.op = "NotFoundAdd"
  /\ ~ret.ok
  /\ nfaWon[ret.key] = 1

\* C2 as stated: of the NotFoundAdd calls on a key between two removals of it,
\* exactly one returns true, so that a call that returns false comes after one
\* that inserted the key.
C2_ExactlyOneTrue ==
  ret.op = "NotFoundAdd" /\ ~ret.ok => nfaWon[ret.key] = 1

\* C3: a Delete(k) that returns without error has run each about-to-delete
\* callback on the item, then each about-to-expire callback of the item on the
\* key, once each and in the order of registration, all before its removal from
\* the map; the item it returns is the one it removed; and when it returns k is
\* not stored: Exists(k) is false and Value(k) is KeyNotFound.
C3_DeleteCallbacksThenRemoval ==
  ret.op = "Delete" /\ ret.err = "nil" =>
    /\ ret.item \in 1..Len(heap)
    /\ heap[ret.item].key = ret.key
    /\ Said(ret.log) = Each("delete", aboutToDeleteItem, ret.item)
                         \o Each("expire", heap[ret.item].aboutToExpire, ret.key)
                         \o <<<<"remove", 0, ret.item>>>>
    /\ ~ExistsOf(ret.key)
    /\ Lookup(ret.key) = "KeyNotFound"

\* C4: Delete of a key that is not stored returns KeyNotFound, Value of such a
\* key returns KeyNotFound when no loader is set and KeyNotFoundOrNotLoadable
\* when the loader gives nothing; these calls run no callback and leave the map,
\* the items, the schedule and the callback lists as they were.  Only a call
\* that finds its key goes on to deleteInternal's callbacks or to KeepAlive.
C4_AbsentKeyErrors ==
  [][/\ ret'.err \in {"nil", "KeyNotFound", "KeyNotFoundOrNotLoadable"}
     /\ ret'.op = "Delete" /\ pc[ret'.p] = "idle" =>
          /\ ret'.err = "KeyNotFound"
          /\ ~ExistsOf(ret'.key)
     /\ ret'.op = "Value" /\ pc[ret'.p] = "idle" =>
          /\ ret'.err = "KeyNotFound"
          /\ ~loadData
          /\ ~ExistsOf(ret'.key)
     /\ ret'.op = "Value" /\ pc[ret'.p] = "val_load" /\ ret'.via # "load" =>
          /\ ret'.err = "KeyNotFoundOrNotLoadable"
          /\ loadData
     /\ ret'.err # "nil" =>
          /\ ret'.op \in {"Delete", "Value"}
          /\ ~ret'.ok
          /\ ret'.log = <<>>
          /\ Untouched
     /\ \A p \in Callers :
          /\ pc[p] = "idle" /\ pc'[p] = "val_load" =>
               /\ ~ExistsOf(loc'[p].key)
               /\ loadData
               /\ Untouched
          /\ pc[p] = "idle" /\ pc'[p] = "val_keepalive" => ExistsOf(loc'[p].key)
          /\ pc[p] = "idle" /\ pc'[p] = "del_cb" => ExistsOf(loc'[p].dkey)
    ]_vars

\* Value has returned KeyNotFoundOrNotLoadable from a table that holds an item
\* and has its timer armed.
C4_Witness ==
  /\ ret.op = "Value"
  /\ ret.err = "KeyNotFoundOrNotLoadable"
  /\ Count > 0
  /\ cleanupTimer # -1

\* C5: a Value(k) that went through the loader returns the loader's data without
\* error after the Add path: an item with the key and the loader's life span
\* and data was put into the map, and then each added callback ran once on it,
\* in order.  When the call returns and the item is still the one stored under
\* k, Exists(k) is true, Value(k) finds it with the same data without the
\* loader, and for a positive life span a sweep is due.
C5_LoaderThroughAdd ==
  ret.op = "Value" /\ ret.via = "load" =>
    /\ ret.err = "nil"
    /\ Len(ret.log) > 0
    /\ LET new == ret.log[1].arg
       IN /\ Said(ret.log) = <<<<"insert", 0, new>>>> \o Each("added", addedItem, new)
          /\ new \in 1..Len(heap)
          /\ heap[new].key = ret.key
          /\ heap[new].lifeSpan = ret.life
          /\ heap[new].data = ret.data
          /\ items[ret.key] = new =>
               /\ ExistsOf(ret.key)
               /\ Lookup(ret.key) = "hit"
               /\ heap[items[ret.key]].data = ret.data
               /\ ret.life > 0 => SweepDue

\* C6: a key whose stored item has life span 0 leaves the map only in a step of
\* Delete or Flush, never in a step of an expiration sweep.
C6_ZeroLifeSpanNeverSwept ==
  [][\A k \in Keys :
       ExistsOf(k) /\ heap[items[k]].lifeSpan = 0 /\ items'[k] = 0
         => ret'.op \in {"Delete", "Flush"}]_vars

\* C7: an item of positive life span is removed by a sweep in the end, so the
\* table never comes to rest (no call or sweep in progress, no timer armed)
\* with such an item stored: nothing would ever remove it.
C7_NoStrandedItem ==
  Quiet /\ cleanupTimer = -1 /\ StrayCount = 0
    => \A k \in Keys : ExistsOf(k) => heap[items[k]].lifeSpan = 0

\* C8: when Flush returns the table is empty, cleanupInterval is 0 and no
\* sweep timer is left armed.
C8_FlushCancelsSchedule ==
  ret.op = "Flush" =>
    /\ Count = 0
    /\ cleanupInterval = 0
    /\ cleanupTimer = -1
    /\ StrayCount = 0

\* C9: every callback runs while the process that invokes it holds neither the
\* table lock nor the lock of the item the callback is about.
C9_CallbacksRunUnlocked ==
  \A p \in Procs :
    \A e \in {loc[p].log[i] : i \in 1..Len(loc[p].log)}
               \cup {loc[p].dlog[i] : i \in 1..Len(loc[p].dlog)} :
      e.kind \in {"added", "delete", "expire"} => ~e.tl /\ ~e.il

\* C10: an Add, or a NotFoundAdd that inserts, has when it returns put its item
\* into the map and then run each added callback once on that item, in the
\* order of registration; a stored key is found by Exists and Value, and leaves
\* the map only in a step of Delete, of an expiration sweep or of Flush.
C10_AddOrderAndVisibility ==
  [][/\ ret'.op \in {"Add", "NotFoundAdd"} /\ ret'.ok =>
          /\ ret'.item \in 1..Len(heap)
          /\ heap[ret'.item].key = ret'.key
          /\ heap[ret'.item].lifeSpan = ret'.life
          /\ Said(ret'.log) = <<<<"insert", 0, ret'.item>>>>
                                \o Each("added", addedItem, ret'.item)
     /\ \A k \in Keys :
          /\ ExistsOf(k) => Lookup(k) = "hit"
          /\ ExistsOf(k) /\ items'[k] = 0 => ret'.op \in {"Delete", "expire", "Flush"}
    ]_vars

\* Add has returned after its two added callbacks, and its item is stored.
C10_Witness ==
  /\ ret.op = "Add"
  /\ Len(ret.log) = 3
  /\ items[ret.key] = ret.item

\* C11: when a Set*Callback(f) returns its list is exactly <<f>>; an
\* Add*Callback(f) puts f at the end of its list and keeps the entries before
\* it; a Remove*Callbacks leaves its list empty; for the added and for the
\* about-to-delete list alike.
C11_RegistrationSemantics ==
  [][/\ ret'.op = "SetAddedItemCallback" => addedItem' = <<ret'.cb>>
     /\ ret'.op = "SetAboutToDeleteItemCallback" => aboutToDeleteItem' = <<ret'.cb>>
     /\ ret'.op = "AddAddedItemCallback" => addedItem' = Append(addedItem, ret'.cb)
     /\ ret'.op = "AddAboutToDeleteItemCallback" =>
          aboutToDeleteItem' = Append(aboutToDeleteItem, ret'.cb)
     /\ ret'.op = "RemoveAddedItemCallbacks" => addedItem' = <<>>
     /\ ret'.op = "RemoveAboutToDeleteItemCallback" => aboutToDeleteItem' = <<>>
    ]_vars

\* The smaller of two numbers.
Min(x, y) == IF x < y THEN x ELSE y

\* C12: MostAccessed(n) returns min(n, Count()) items (none for n <= 0), all
\* different and all stored, in an order of non-increasing accessCount, and no
\* stored item left out has a greater accessCount than a returned one.
C12_MostAccessedOrder ==
  ret.op = "MostAccessed" =>
    LET r == ret.res
        got == {r[i] : i \in 1..Len(r)}
        stored == {items[k] : k \in {x \in Keys : items[x] # 0}}
    IN /\ Len(r) = (IF ret.n <= 0 THEN 0 ELSE Min(ret.n, Count))
       /\ Cardinality(got) = Len(r)
       /\ got \subseteq stored
       /\ \A i, j \in 1..Len(r) : i < j => heap[r[i]].accessCount >= heap[r[j]].accessCount
       /\ \A x \in stored \ got : \A y \in got : heap[x].accessCount <= heap[y].accessCount

\* C13: Exists(k) answers whether k is stored at that moment and does nothing
\* else: no item is created or loaded, no access is counted, no deadline is
\* moved, and the table, its schedule and its callbacks stay as they were.
C13_ExistsPure ==
  [][ret'.op = "Exists" =>
       /\ ret'.ok = (items[ret'.key] # 0)
       /\ ret'.via = "none"
       /\ UNCHANGED <<items, heap, sched, hooks, hits>>]_vars

\* Exists has answered false for an absent key of a table that has a loader.
C13_Witness == ret.op = "Exists" /\ ~ret.ok /\ loadData /\ items[ret.key] = 0

\* The next step of operation p, whatever it is.
Continues(p) ==
  \/ AddCallbacks(p) \/ ExpStart(p) \/ ExpVisit(p) \/ ExpEnd(p)
  \/ DelCallbacks(p) \/ DelExpire(p) \/ DelRemove(p)
  \/ KeepAlive(p) \/ KeepAliveWake(p)

\* p is in deleteInternal at table.Lock() with the item's read lock held.
HoldsItemWantsTable(p) == pc[p] = "del_lock" /\ p \in itemR[loc[p].r]

\* C14: no operation asks for the table's lock while it holds an item's lock,
\* so the operations on a table cannot deadlock: whenever some operation is
\* under way, some operation can take its next step.
C14_NoDeadlock ==
  (\E p \in Procs : pc[p] # Rest(p)) => \E p \in Procs : ENABLED Continues(p)

\* The timers that are armed: the one table.cleanupTimer holds and the ones
\* nothing holds any more.
PendingTimers == (IF cleanupTimer = -1 THEN 0 ELSE 1) + StrayCount

Mortal == {i \in {items[k] : k \in Keys} \ {0} : heap[i].lifeSpan > 0}

Deleting(p) == pc[p] \in {"del_cb", "del_rlock", "del_lock"}

\* The about-to-delete callbacks of a log.
DeleteCalls(log) == SelectSeq(Said(log), LAMBDA e : e[1] = "delete")

\* C17: whatever makes an item leave the map (Delete, the sweep, Flush, an Add
\* or a loader insert on its key), every registered about-to-delete callback
\* has been invoked for the item before it leaves.
C17_AboutToDeleteAnyCause ==
  [][\A k \in Keys :
       items[k] # 0 /\ items'[k] # items[k] =>
         \E p \in Procs :
           /\ pc[p] = "del_lock"
           /\ pc'[p] # "del_lock"
           /\ DeleteCalls(loc[p].dlog) = Each("delete", aboutToDeleteItem, items[k])]_vars

\* C18: for each item put into the table, over all the Delete calls and sweeps
\* on its key, overlapping or not, the about-to-delete and about-to-expire
\* callbacks are invoked at most once for the item, and at most one Delete
\* returns success for it: a deletion runs the callbacks for an item for which
\* no other deletion, still under way, has run them, and when a Delete returns
\* an item no other Delete is on its way to returning the same one.
C18_RemovalExactlyOnce ==
  [][/\ \A p \in Procs :
          pc[p] = "del_cb" /\ pc'[p] = "del_rlock" =>
            \A q \in Procs \ {p} :
              ~(pc[q] \in {"del_rlock", "del_lock"} /\ loc[q].r = loc[p].r)
     /\ ret'.op = "Delete" /\ ret'.err = "nil" =>
          \A q \in Callers : ~(Deleting(q)' /\ ~loc'[q].inExp /\ loc'[q].r = ret'.item)]_vars

\* C19: the entry a Delete or a sweep removes from the map is the item it
\* looked up and ran the callbacks for; an item stored under the key while the
\* callbacks ran is still stored when the deletion is over.
C19_RemovesOnlyLookedUp ==
  [][\A p \in Procs :
       pc[p] = "del_lock" /\ pc'[p] # "del_lock" =>
         \/ items[loc[p].dkey] = loc[p].r
         \/ items'[loc[p].dkey] = items[loc[p].dkey]]_vars

\* The instants at which an armed timer fires.
Deadlines ==
  (IF cleanupTimer = -1 THEN {} ELSE {cleanupTimer}) \cup {d \in 0..MaxDeadline : strayTimers[d] > 0}

\* C20: whenever no call and no sweep is in progress and an item with a
\* positive lifeSpan is stored, a timer is armed that fires no later than the
\* earliest accessedOn + lifeSpan of those items; and cleanupInterval is 0 only
\* when no timer is armed.
C20_NoExpiryMissed ==
  Quiet =>
    /\ Mortal # {} =>
         \E d \in Deadlines : \A i \in Mortal : d <= heap[i].accessedOn + heap[i].lifeSpan
    /\ cleanupInterval = 0 => Deadlines = {}

====
